---- MODULE Spec2Model ----
(***************************************************************************)
(* Model of the AgentV2 decision engine (src/AgentV2.py).                  *)
(*                                                                         *)
(* Probabilities are exact rationals <<n, d>> in lowest terms with d > 0.  *)
(* The pair <<0, 0>> is not a number: it stands for "the expression raised *)
(* ZeroDivisionError", and every operation propagates it the way a Python  *)
(* exception unwinds the enclosing calls.                                  *)
(***************************************************************************)
EXTENDS Integers, Sequences, FiniteSets, TLC

VARIABLES agents, pc, raised, init_args, observe_arg, caller_list, aliased

\* a CascadeSimulator and the locals of its running simulate_* call
VARIABLES num_agents, q_value, sim_pc, sim_raised, sim_mode, private_signals,
          k_levels, sim_agents, sim_aliased, decisions

\* the position of a running run_comprehensive_demo call
VARIABLE demo_pc

agent_vars == <<agents, pc, raised, init_args, observe_arg, caller_list, aliased>>

sim_vars == <<num_agents, q_value, sim_pc, sim_raised, sim_mode, private_signals,
              k_levels, sim_agents, sim_aliased, decisions, demo_pc>>

\* an Agent of the legacy AgentClass and the outcome of the last call on it
VARIABLES legacy, legacy_pc, legacy_ret

legacy_vars == <<legacy, legacy_pc, legacy_ret>>

vars == <<agent_vars, sim_vars, legacy_vars>>

(* ------------------------------ bounds -------------------------------- *)

\* longest observation list handed to observe() on the single-agent slot
MaxObs == 3
\* longest observation list handed to observe() when two agents are compared
PairMaxObs == 2
\* largest num_agents of a CascadeSimulator
MaxAgents == 3
\* largest num_agents for which run_comprehensive_demo is run on every
\* private-signal sequence
HerdAgents == 6
\* largest num_agents for which run_comprehensive_demo is run
DemoMaxAgents == 11

(* ------------------------- exact arithmetic --------------------------- *)

Abs(n) == IF n < 0 THEN -n ELSE n

RECURSIVE Gcd(_, _)
Gcd(a, b) == IF b = 0 THEN a ELSE Gcd(b, a % b)

\* the rational n/d (d # 0) in lowest terms with a positive denominator
Rat(n, d) ==
    LET g == Gcd(Abs(n), Abs(d))
        s == IF d < 0 THEN -1 ELSE 1
    IN  <<(s * n) \div g, (s * d) \div g>>

Raised == <<0, 0>>
IsRaised(x) == x[2] = 0

Zero == <<0, 1>>
One == <<1, 1>>
Half == <<1, 2>>

\* sums and products cancel common factors before they multiply, so that
\* the intermediate integers stay as small as the result
RAdd(x, y) ==
    IF IsRaised(x) \/ IsRaised(y) THEN Raised
    ELSE LET g == Gcd(x[2], y[2])
         IN  Rat(x[1] * (y[2] \div g) + y[1] * (x[2] \div g),
                 (x[2] \div g) * y[2])

RSub(x, y) ==
    IF IsRaised(x) \/ IsRaised(y) THEN Raised
    ELSE LET g == Gcd(x[2], y[2])
         IN  Rat(x[1] * (y[2] \div g) - y[1] * (x[2] \div g),
                 (x[2] \div g) * y[2])

RMul(x, y) ==
    IF IsRaised(x) \/ IsRaised(y) THEN Raised
    ELSE LET g1 == Gcd(Abs(x[1]), y[2])
             g2 == Gcd(Abs(y[1]), x[2])
         IN  Rat((x[1] \div g1) * (y[1] \div g2),
                 (x[2] \div g2) * (y[2] \div g1))

\* Python's "/": dividing by zero raises ZeroDivisionError
RDiv(x, y) ==
    IF IsRaised(x) \/ IsRaised(y) \/ y[1] = 0 THEN Raised
    ELSE RMul(x, Rat(y[2], y[1]))

\* comparisons of two numbers (never applied to Raised)
RGt(x, y) == x[1] * y[2] > y[1] * x[2]
RGe(x, y) == x[1] * y[2] >= y[1] * x[2]
REq(x, y) == x[1] * y[2] = y[1] * x[2]

(* --------------------------- Python values ---------------------------- *)

\* a bool as the string Python prints for it; "None" is the unset decision
\* and an exception is named by its class
Py(b) == IF b THEN "True" ELSE "False"

\* posterior > 0.5, or the exception the posterior's computation raised
GtHalf(p) == IF IsRaised(p) THEN "ZeroDivisionError" ELSE Py(RGt(p, Half))

(* ---------------------------- AgentV2 --------------------------------- *)

\* accuracy assumed for every observed decision
ObsAccuracy == <<3, 5>>

\* the slot of an agent that was never constructed
NoAgent ==
    [private_signal |-> FALSE, signal_strength |-> Zero, k_level |-> -1,
     prior |-> <<Zero, Zero>>, observations |-> <<>>, decision |-> "None"]

update_belief_zero_gives_zero(self, current_prob, signal, is_observation) ==
    LET q == IF ~is_observation THEN self.signal_strength ELSE ObsAccuracy
        likelihood_true == IF signal THEN q ELSE RSub(One, q)
        likelihood_false == IF signal THEN RSub(One, q) ELSE q
        numerator == RMul(likelihood_true, current_prob)
        denominator ==
            RAdd(numerator, RMul(likelihood_false, RSub(One, current_prob)))
    IN  IF IsRaised(denominator) THEN Raised
        ELSE IF REq(denominator, Zero) THEN Zero
        ELSE RDiv(numerator, denominator)

update_belief_minus(self, current_prob, signal, is_observation) ==
    LET q == IF ~is_observation THEN self.signal_strength ELSE ObsAccuracy
        likelihood_true == IF signal THEN q ELSE RSub(One, q)
        likelihood_false == IF signal THEN RSub(One, q) ELSE q
        numerator == RMul(likelihood_true, current_prob)
        denominator ==
            RSub(numerator, RMul(likelihood_false, RSub(One, current_prob)))
    IN  IF IsRaised(denominator) THEN Raised
        ELSE IF REq(denominator, Zero) THEN current_prob
        ELSE RDiv(numerator, denominator)

update_belief_unguarded(self, current_prob, signal, is_observation) ==
    LET q == IF ~is_observation THEN self.signal_strength ELSE ObsAccuracy
        likelihood_true == IF signal THEN q ELSE RSub(One, q)
        likelihood_false == IF signal THEN RSub(One, q) ELSE q
        numerator == RMul(likelihood_true, current_prob)
        denominator ==
            RAdd(numerator, RMul(likelihood_false, RSub(One, current_prob)))
    IN  RDiv(numerator, denominator)

update_belief(self, current_prob, signal, is_observation) ==
    LET q == IF ~is_observation THEN self.signal_strength ELSE ObsAccuracy
        likelihood_true == IF signal THEN q ELSE RSub(One, q)
        likelihood_false == IF signal THEN RSub(One, q) ELSE q
        numerator == RMul(likelihood_true, current_prob)
        denominator ==
            RAdd(numerator, RMul(likelihood_false, RSub(One, current_prob)))
    IN  IF IsRaised(denominator) THEN Raised
        ELSE IF REq(denominator, Zero) THEN current_prob
        ELSE RDiv(numerator, denominator)

\* a loop in which every step starts again from the initial belief
RECURSIVE fold_observations_from_start(_, _, _)
fold_observations_from_start(self, prob_true, observations) ==
    IF observations = <<>> THEN prob_true
    ELSE IF Len(observations) = 1
    THEN update_belief(self, prob_true, Head(observations), TRUE)
    ELSE fold_observations_from_start(self, prob_true, Tail(observations))

\* the loop of _bayesian_update over the observations, left to right
RECURSIVE fold_observations(_, _, _)
fold_observations(self, prob_true, observations) ==
    IF observations = <<>> THEN prob_true
    ELSE fold_observations(self,
                           update_belief(self, prob_true, Head(observations), TRUE),
                           Tail(observations))

bayesian_update_no_observations(self, observations, private_signal) ==
    update_belief(self, self.prior[1], private_signal, FALSE)

bayesian_update(self, observations, private_signal) ==
    update_belief(self,
                  fold_observations(self, self.prior[1], observations),
                  private_signal, FALSE)

aux_lvl0_strict(self) ==
    IF RGt(self.signal_strength, Half)
    THEN Py(self.private_signal)
    ELSE Py(~self.private_signal)

aux_lvl0(self) ==
    IF RGe(self.signal_strength, Half)
    THEN Py(self.private_signal)
    ELSE Py(~self.private_signal)

aux_lvl1_ge(self) ==
    LET p == bayesian_update(self, self.observations, self.private_signal)
    IN  IF IsRaised(p) THEN "ZeroDivisionError" ELSE Py(RGe(p, Half))

aux_lvl1(self) ==
    GtHalf(bayesian_update(self, self.observations, self.private_signal))

simulate_level1_agent_own_signal(self, observations, private_signal) ==
    GtHalf(bayesian_update(self, observations, self.private_signal))

simulate_level1_agent(self, observations, private_signal) ==
    GtHalf(bayesian_update(self, observations, private_signal))

\* the counters (true_count, false_count); <<-1, -1>> when a simulation raised
InferRaised == <<-1, -1>>

\* the loop of _infer_private_signals from position i (1-based) on, where the
\* observation at a "no clear match" position is not counted
RECURSIVE infer_loop_dropping(_, _, _, _)
infer_loop_dropping(self, i, true_count, false_count) ==
    IF i > Len(self.observations) THEN <<true_count, false_count>>
    ELSE
        LET observation == Py(self.observations[i])
            previous_observations == SubSeq(self.observations, 1, i - 1)
            decision_if_true ==
                simulate_level1_agent(self, previous_observations, TRUE)
            decision_if_false ==
                simulate_level1_agent(self, previous_observations, FALSE)
        IN  IF decision_if_true = "ZeroDivisionError"
               \/ decision_if_false = "ZeroDivisionError"
            THEN InferRaised
            ELSE IF observation = decision_if_true
            THEN infer_loop_dropping(self, i + 1, true_count + 1, false_count)
            ELSE IF observation = decision_if_false
            THEN infer_loop_dropping(self, i + 1, true_count, false_count + 1)
            ELSE infer_loop_dropping(self, i + 1, true_count, false_count)

\* the loop of _infer_private_signals from position i (1-based) on
RECURSIVE infer_loop(_, _, _, _)
infer_loop(self, i, true_count, false_count) ==
    IF i > Len(self.observations) THEN <<true_count, false_count>>
    ELSE
        LET observation == Py(self.observations[i])
            previous_observations == SubSeq(self.observations, 1, i - 1)
            decision_if_true ==
                simulate_level1_agent(self, previous_observations, TRUE)
            decision_if_false ==
                simulate_level1_agent(self, previous_observations, FALSE)
        IN  IF decision_if_true = "ZeroDivisionError"
               \/ decision_if_false = "ZeroDivisionError"
            THEN InferRaised
            ELSE IF observation = decision_if_true
            THEN infer_loop(self, i + 1, true_count + 1, false_count)
            ELSE IF observation = decision_if_false
            THEN infer_loop(self, i + 1, true_count, false_count + 1)
            ELSE infer_loop(self, i + 1, true_count + 1, false_count)

infer_private_signals_dropping(self) == infer_loop_dropping(self, 1, 0, 0)

infer_private_signals(self) == infer_loop(self, 1, 0, 0)

\* one "for _ in range(count)" loop of _bayesian_update_with_inferred_signals
RECURSIVE repeat_update(_, _, _, _)
repeat_update(self, prob_true, signal, count) ==
    IF count <= 0 THEN prob_true
    ELSE repeat_update(self, update_belief(self, prob_true, signal, TRUE),
                       signal, count - 1)

\* inferred signals weighted with the agent's own signal_strength
RECURSIVE repeat_update_own_q(_, _, _, _)
repeat_update_own_q(self, prob_true, signal, count) ==
    IF count <= 0 THEN prob_true
    ELSE repeat_update_own_q(self, update_belief(self, prob_true, signal, FALSE),
                             signal, count - 1)

bayesian_update_with_inferred_signals_own_q(self, true_count, false_count, private_signal) ==
    LET after_true == repeat_update_own_q(self, self.prior[1], TRUE, true_count)
        after_false == repeat_update_own_q(self, after_true, FALSE, false_count)
    IN  update_belief(self, after_false, private_signal, FALSE)

bayesian_update_with_inferred_signals(self, true_count, false_count, private_signal) ==
    LET after_true == repeat_update(self, self.prior[1], TRUE, true_count)
        after_false == repeat_update(self, after_true, FALSE, false_count)
    IN  update_belief(self, after_false, private_signal, FALSE)

aux_lvl2(self) ==
    IF self.observations = <<>> THEN aux_lvl1(self)
    ELSE
        LET counts == infer_private_signals(self)
        IN  IF counts = InferRaised THEN "ZeroDivisionError"
            ELSE GtHalf(bayesian_update_with_inferred_signals(
                            self, counts[1], counts[2], self.private_signal))

\* the value action() stores in self.decision and returns, or the exception
\* it raises
\* the agent after "self.decision = d"
action_store_consuming(self, d) ==
    [self EXCEPT !.decision = d, !.observations = <<>>]

action_store(self, d) == [self EXCEPT !.decision = d]

action_decision_cached(self) ==
    IF self.decision # "None" THEN self.decision
    ELSE IF self.k_level = 0 THEN aux_lvl0(self)
    ELSE IF self.k_level = 1 THEN aux_lvl1(self)
    ELSE IF self.k_level = 2 THEN aux_lvl2(self)
    ELSE self.decision

action_decision(self) ==
    IF self.k_level = 0 THEN aux_lvl0(self)
    ELSE IF self.k_level = 1 THEN aux_lvl1(self)
    ELSE IF self.k_level = 2 THEN aux_lvl2(self)
    ELSE self.decision

(* ------------------------- Agent (AgentClass) ------------------------- *)

NoLegacyAgent ==
    [q |-> Zero, k_level |-> -1, private_signal |-> FALSE, observations |-> <<>>]

\* one step of the loop of calculate_belief_after_observations
belief_step(belief, obs, q_other) ==
    LET likelihood_true == IF obs THEN q_other ELSE RSub(One, q_other)
        likelihood_false == IF obs THEN RSub(One, q_other) ELSE q_other
        numerator == RMul(likelihood_true, belief)
        denominator == RAdd(numerator, RMul(likelihood_false, RSub(One, belief)))
    IN  IF RGt(denominator, Zero) THEN RDiv(numerator, denominator) ELSE belief

RECURSIVE belief_loop(_, _, _)
belief_loop(belief, observations, q_other) ==
    IF observations = <<>> THEN belief
    ELSE belief_loop(belief_step(belief, Head(observations), q_other),
                     Tail(observations), q_other)

calculate_belief_after_observations(observations, q_other) ==
    belief_loop(Half, observations, q_other)

calculate_expected_action(belief_after_observations, private_signal, q_agent) ==
    RGt(belief_step(belief_after_observations, private_signal, q_agent), Half)

\* the loop of infer_private_signals_count from position i (1-based) on;
\* q_agent and q_other are both the accuracy 0.6
RECURSIVE count_loop(_, _, _, _)
count_loop(observations, i, true_count, false_count) ==
    IF i > Len(observations) THEN <<true_count, false_count>>
    ELSE IF i = 1
    THEN LET inferred_signal ==
                 IF RGe(ObsAccuracy, Half) THEN observations[i]
                 ELSE ~observations[i]
         IN  count_loop(observations, i + 1,
                        true_count + (IF inferred_signal THEN 1 ELSE 0),
                        false_count + (IF inferred_signal THEN 0 ELSE 1))
    ELSE LET current_action == observations[i]
             belief_after_prev ==
                 calculate_belief_after_observations(
                     SubSeq(observations, 1, i - 1), ObsAccuracy)
             action_if_true ==
                 calculate_expected_action(belief_after_prev, TRUE, ObsAccuracy)
             action_if_false ==
                 calculate_expected_action(belief_after_prev, FALSE, ObsAccuracy)
         IN  count_loop(observations, i + 1,
                        true_count + (IF current_action = action_if_true THEN 1 ELSE 0),
                        false_count + (IF current_action = action_if_false THEN 1 ELSE 0))

\* (overall_signal, true_count, false_count) of infer_private_signals_count
infer_private_signals_count(self) ==
    LET counts == count_loop(self.observations, 1, 0, 0)
        overall_signal ==
            IF counts[1] > counts[2] THEN "True"
            ELSE IF counts[2] > counts[1] THEN "False"
            ELSE "None"
    IN  <<overall_signal, counts[1], counts[2]>>

\* one unguarded Bayes step of Agent._bayesian_update
legacy_step(prob_true, signal, q) ==
    LET given_true == IF signal THEN q ELSE RSub(One, q)
        given_false == IF signal THEN RSub(One, q) ELSE q
        prob_signal == RAdd(RMul(given_true, prob_true),
                            RMul(given_false, RSub(One, prob_true)))
    IN  RDiv(RMul(given_true, prob_true), prob_signal)

RECURSIVE legacy_loop(_, _)
legacy_loop(prob_true, observations) ==
    IF observations = <<>> THEN prob_true
    ELSE legacy_loop(legacy_step(prob_true, Head(observations), ObsAccuracy),
                     Tail(observations))

Agent_bayesian_update(self) ==
    IF self.observations = <<>>
    THEN RDiv(RMul(IF self.private_signal THEN self.q ELSE RSub(One, self.q), Half),
              Half)
    ELSE legacy_step(legacy_loop(Half, self.observations),
                     self.private_signal, self.q)

\* the k = 0 rule, repeated in each branch of Agent.action
signal_rule(self) ==
    IF RGe(self.q, Half) THEN Py(self.private_signal) ELSE Py(~self.private_signal)

\* what Agent.action returns, or the exception it raises
Agent_action(self) ==
    IF self.k_level = 0 THEN signal_rule(self)
    ELSE IF self.k_level = 1
    THEN IF self.observations = <<>> THEN signal_rule(self)
         ELSE GtHalf(Agent_bayesian_update(self))
    ELSE IF self.k_level = 2
    THEN IF self.observations = <<>> THEN signal_rule(self)
         ELSE infer_private_signals_count(self)[1]
    ELSE "ValueError"

(* --------------------------- input domains ---------------------------- *)

AgentIds == {1, 2}

\* signal_strength arguments: 0, 0.3, 0.5, 0.6, 0.8, 1 and, out of range,
\* -0.1 and 1.1
QValid == {Zero, <<3, 10>>, Half, <<3, 5>>, <<4, 5>>, One}
QArgs == QValid \cup {<<-1, 10>>, <<11, 10>>}

\* k_level arguments
KArgs == -1 .. 3

\* prior arguments: the default and the two degenerate priors
DefaultPrior == <<Half, Half>>
PriorArgs == {DefaultPrior, <<One, Zero>>, <<Zero, One>>}

\* the arguments used when two agents are compared
PairQArgs == {<<3, 5>>}
PairKArgs == 0 .. 2

BoolSeqs(n) == UNION {[1 .. m -> BOOLEAN] : m \in 0 .. n}

\* the observation list of the end-to-end scenario
EndToEndObservations == <<TRUE, FALSE, TRUE, TRUE, FALSE>>

(* ------------------------------ actions ------------------------------- *)

Alive(a) ==
    pc[a] \in {"ready", "observed", "observed_twice", "decided", "action_raised"}

valid_args_no_k_check(signal_strength, k_level) ==
    RGe(signal_strength, Zero) /\ RGe(One, signal_strength)

\* the two checks of __init__
valid_args(signal_strength, k_level) ==
    /\ RGe(signal_strength, Zero) /\ RGe(One, signal_strength)
    /\ k_level \in {0, 1, 2}

Init ==
    /\ agents = [a \in AgentIds |-> NoAgent]
    /\ pc = [a \in AgentIds |-> "unborn"]
    /\ raised = [a \in AgentIds |-> "none"]
    /\ init_args = [a \in AgentIds |-> <<Zero, -1>>]
    /\ observe_arg = [a \in AgentIds |-> <<>>]
    /\ caller_list = [a \in AgentIds |-> <<>>]
    /\ aliased = [a \in AgentIds |-> FALSE]
    /\ num_agents = 0
    /\ q_value = Zero
    /\ sim_pc = "none"
    /\ sim_raised = "none"
    /\ sim_mode = "none"
    /\ private_signals = <<>>
    /\ k_levels = <<>>
    /\ sim_agents = <<>>
    /\ sim_aliased = <<>>
    /\ decisions = <<>>
    /\ demo_pc = "none"
    /\ legacy = NoLegacyAgent
    /\ legacy_pc = "none"
    /\ legacy_ret = "None"

\* slot a := AgentV2(private_signal, signal_strength, k_level, prior)
AgentV2_init(a, Qs, Ks, Priors) ==
    \E private_signal \in BOOLEAN, signal_strength \in Qs, k_level \in Ks,
       prior \in Priors :
        /\ init_args' = [init_args EXCEPT ![a] = <<signal_strength, k_level>>]
        /\ observe_arg' = [observe_arg EXCEPT ![a] = <<>>]
        /\ caller_list' = [caller_list EXCEPT ![a] = <<>>]
        /\ aliased' = [aliased EXCEPT ![a] = FALSE]
        /\ UNCHANGED <<sim_vars, legacy_vars>>
        /\ IF valid_args(signal_strength, k_level)
           THEN /\ agents' = [agents EXCEPT ![a] =
                       [private_signal |-> private_signal,
                        signal_strength |-> signal_strength,
                        k_level |-> k_level,
                        prior |-> prior,
                        observations |-> <<>>,
                        decision |-> "None"]]
                /\ pc' = [pc EXCEPT ![a] = "ready"]
                /\ raised' = [raised EXCEPT ![a] = "none"]
           ELSE /\ agents' = [agents EXCEPT ![a] = NoAgent]
                /\ pc' = [pc EXCEPT ![a] = "init_failed"]
                /\ raised' = [raised EXCEPT ![a] = "ValueError"]

\* what observe() stores in self.observations, and whether that is the
\* caller's list object itself (aliased) or a list of the agent's own
observe_store_extend(self, observations) ==
    [observations |-> self.observations \o observations, aliased |-> FALSE]

observe_store_alias(self, observations) ==
    [observations |-> observations, aliased |-> TRUE]

observe_store(self, observations) ==
    [observations |-> observations, aliased |-> FALSE]

\* agents[a].observe(observations), the caller's list holding observations;
\* position is the value pc[a] takes
observe_call(a, observations, position) ==
    LET stored == observe_store(agents[a], observations)
    IN  /\ agents' = [agents EXCEPT ![a].observations = stored.observations]
        /\ aliased' = [aliased EXCEPT ![a] = stored.aliased]
        /\ observe_arg' = [observe_arg EXCEPT ![a] = observations]
        /\ caller_list' = [caller_list EXCEPT ![a] = observations]
        /\ pc' = [pc EXCEPT ![a] = position]
        /\ raised' = [raised EXCEPT ![a] = "none"]
        /\ UNCHANGED <<init_args, sim_vars, legacy_vars>>

\* agents[a].observe(observations) for a list drawn from Obs
observe(a, Obs) ==
    /\ Alive(a)
    /\ \E observations \in Obs : observe_call(a, observations, "observed")

\* agents[a].observe(x) once more with the x of the call just made
observe_again(a) ==
    /\ pc[a] = "observed"
    /\ observe_call(a, observe_arg[a], "observed_twice")

\* the caller appends a decision to the list it passed to observe(); the
\* agent's observations grow with it only when they are that same list
caller_append(a) ==
    /\ pc[a] \in {"observed", "observed_twice", "decided"}
    /\ Len(caller_list[a]) < MaxObs
    /\ \E decision \in BOOLEAN :
        /\ caller_list' = [caller_list EXCEPT ![a] = Append(@, decision)]
        /\ agents' = [agents EXCEPT ![a].observations =
                          IF aliased[a] THEN Append(@, decision) ELSE @]
    /\ UNCHANGED <<pc, raised, init_args, observe_arg, aliased, sim_vars, legacy_vars>>

\* agents[a].action()
action(a) ==
    /\ Alive(a)
    /\ LET d == action_decision(agents[a])
       IN  IF d = "ZeroDivisionError"
           THEN /\ pc' = [pc EXCEPT ![a] = "action_raised"]
                /\ raised' = [raised EXCEPT ![a] = d]
                /\ UNCHANGED agents
           ELSE /\ agents' = [agents EXCEPT ![a] = action_store(@, d)]
                /\ pc' = [pc EXCEPT ![a] = "decided"]
                /\ raised' = [raised EXCEPT ![a] = "none"]
    /\ UNCHANGED <<init_args, observe_arg, caller_list, aliased, sim_vars, legacy_vars>>

\* one agent, every argument
Next ==
    \/ AgentV2_init(1, QArgs, KArgs, PriorArgs)
    \/ observe(1, BoolSeqs(MaxObs) \cup {EndToEndObservations})
    \/ action(1)

Spec == Init /\ [][Next]_vars

\* two agents, default prior
NextPair ==
    \E a \in AgentIds :
        \/ AgentV2_init(a, PairQArgs, PairKArgs, {DefaultPrior})
        \/ observe(a, BoolSeqs(PairMaxObs))
        \/ action(a)

SpecPair == Init /\ [][NextPair]_vars

\* one agent and the caller's list
NextObserve ==
    \/ AgentV2_init(1, PairQArgs, PairKArgs, {DefaultPrior})
    \/ observe(1, BoolSeqs(MaxObs))
    \/ observe_again(1)
    \/ caller_append(1)
    \/ action(1)

SpecObserve == Init /\ [][NextObserve]_vars

(* --------------------- actions of Agent (AgentClass) ------------------ *)

\* the k_level arguments tried: the three levels and one unknown level
LegacyKArgs == 0..3

\* legacy = Agent(q_value, k_level, private_signal); with private_signal
\* None the constructor calls random.choice, and the module never imports
\* random
Agent_init ==
    /\ \E q \in QValid, k_level \in LegacyKArgs,
          private_signal \in {"None", "True", "False"} :
        IF private_signal = "None"
        THEN /\ legacy' = NoLegacyAgent
             /\ legacy_pc' = "raised"
             /\ legacy_ret' = "NameError"
        ELSE /\ legacy' = [q |-> q, k_level |-> k_level,
                           private_signal |-> (private_signal = "True"),
                           observations |-> <<>>]
             /\ legacy_pc' = "ready"
             /\ legacy_ret' = "None"
    /\ UNCHANGED <<agent_vars, sim_vars>>

LegacyAlive == legacy_pc \in {"ready", "observed", "returned", "action_raised"}

\* legacy.observation(observations_list)
Agent_observation ==
    /\ LegacyAlive
    /\ \E observations_list \in BoolSeqs(MaxObs) :
        legacy' = [legacy EXCEPT !.observations = observations_list]
    /\ legacy_pc' = "observed"
    /\ legacy_ret' = "None"
    /\ UNCHANGED <<agent_vars, sim_vars>>

\* legacy.action(observations); the argument is never read
Agent_action_call ==
    /\ LegacyAlive
    /\ LET r == Agent_action(legacy)
       IN  /\ legacy_ret' = r
           /\ legacy_pc' = IF r \in {"ValueError", "ZeroDivisionError"}
                           THEN "action_raised" ELSE "returned"
    /\ UNCHANGED <<legacy, agent_vars, sim_vars>>

NextLegacy ==
    \/ Agent_init
    \/ Agent_observation
    \/ Agent_action_call

SpecLegacy == Init /\ [][NextLegacy]_vars

(* -------------------------- CascadeSimulator -------------------------- *)

\* q_value arguments: 0.6 (main) and 0.7 (the default)
SimQArgs == {<<3, 5>>, <<7, 10>>}

\* k_level arguments of simulate_k_level_cascade
SimKArgs == 0 .. 3

\* k_levels arguments of simulate_mixed_k_levels
SimKLists == UNION {[1 .. m -> 0 .. 2] : m \in 0 .. MaxAgents}

SimStopped == sim_pc \in {"idle", "done", "raised"}

\* no run_comprehensive_demo call is on the stack
DemoStopped == demo_pc \in {"none", "finished", "raised"}

\* simulator = CascadeSimulator(q_value = q, num_agents = n), with the
\* arguments drawn from Ns and Qs
CascadeSimulator_new(Ns, Qs) ==
    /\ sim_pc \in {"none", "idle", "done", "raised"}
    /\ DemoStopped
    /\ \E n \in Ns, q \in Qs :
        /\ num_agents' = n
        /\ q_value' = q
    /\ demo_pc' = "none"
    /\ sim_pc' = "idle"
    /\ sim_raised' = "none"
    /\ sim_mode' = "none"
    /\ private_signals' = <<>>
    /\ k_levels' = <<>>
    /\ sim_agents' = <<>>
    /\ sim_aliased' = <<>>
    /\ decisions' = <<>>
    /\ UNCHANGED <<agent_vars, legacy_vars>>

CascadeSimulator_init == CascadeSimulator_new(0 .. MaxAgents, SimQArgs)

\* generate_private_signals(): one draw per agent, each either value
generate_private_signals == [1 .. num_agents -> BOOLEAN]

\* the locals of a simulate_* call before its loop, and the loop's entry
start_run(mode, signals, levels) ==
    /\ sim_mode' = mode
    /\ private_signals' = signals
    /\ k_levels' = levels
    /\ sim_agents' = <<>>
    /\ sim_aliased' = <<>>
    /\ decisions' = <<>>
    /\ sim_raised' = "none"
    /\ sim_pc' = IF num_agents = 0 THEN "done" ELSE "create"
    /\ UNCHANGED <<num_agents, q_value, agent_vars, legacy_vars>>

\* simulator.simulate_k_level_cascade(k_level), up to the loop
simulate_k_level_cascade ==
    /\ SimStopped
    /\ DemoStopped
    /\ UNCHANGED demo_pc
    /\ \E k_level \in SimKArgs, signals \in generate_private_signals :
        start_run("k_level", signals, [i \in 1 .. num_agents |-> k_level])

\* the body of simulate_mixed_k_levels(levels) up to the loop, the signals
\* being drawn from Signals
mixed_k_levels_call(levels, Signals) ==
    IF Len(levels) # num_agents
    THEN /\ sim_pc' = "raised"
         /\ sim_raised' = "ValueError"
         /\ sim_mode' = "mixed"
         /\ private_signals' = <<>>
         /\ k_levels' = levels
         /\ sim_agents' = <<>>
         /\ sim_aliased' = <<>>
         /\ decisions' = <<>>
         /\ UNCHANGED <<num_agents, q_value, agent_vars, legacy_vars>>
    ELSE \E signals \in Signals :
             start_run("mixed", signals, levels)

\* simulator.simulate_mixed_k_levels(k_levels), up to the loop
simulate_mixed_k_levels ==
    /\ SimStopped
    /\ DemoStopped
    /\ UNCHANGED demo_pc
    /\ \E levels \in SimKLists :
        mixed_k_levels_call(levels, generate_private_signals)

\* where an exception raised inside a simulate_* call leaves the demo
unwound == IF DemoStopped THEN demo_pc ELSE "raised"

\* loop body, first part: agent = AgentV2(...); agents.append(agent)
cascade_create ==
    /\ sim_pc = "create"
    /\ LET i == Len(sim_agents) + 1
       IN  IF valid_args(q_value, k_levels[i])
           THEN /\ sim_agents' = Append(sim_agents,
                       [private_signal |-> private_signals[i],
                        signal_strength |-> q_value,
                        k_level |-> k_levels[i],
                        prior |-> DefaultPrior,
                        observations |-> <<>>,
                        decision |-> "None"])
                /\ sim_aliased' = Append(sim_aliased, FALSE)
                /\ sim_pc' = IF decisions # <<>> THEN "observe" ELSE "action"
                /\ UNCHANGED sim_raised
                /\ UNCHANGED demo_pc
           ELSE /\ sim_pc' = "raised"
                /\ sim_raised' = "ValueError"
                /\ demo_pc' = unwound
                /\ UNCHANGED <<sim_agents, sim_aliased>>
    /\ UNCHANGED <<num_agents, q_value, sim_mode, private_signals, k_levels,
                   decisions, agent_vars, legacy_vars>>

\* loop body, second part: if decisions: agent.observe(decisions)
cascade_observe ==
    /\ sim_pc = "observe"
    /\ LET i == Len(sim_agents)
           stored == observe_store(sim_agents[i], decisions)
       IN  /\ sim_agents' = [sim_agents EXCEPT
                                 ![i].observations = stored.observations]
           /\ sim_aliased' = [sim_aliased EXCEPT ![i] = stored.aliased]
    /\ sim_pc' = "action"
    /\ UNCHANGED <<num_agents, q_value, sim_raised, sim_mode, private_signals,
                   k_levels, decisions, demo_pc, agent_vars, legacy_vars>>

\* loop body, last part: decision = agent.action(); decisions.append(decision)
cascade_action ==
    /\ sim_pc = "action"
    /\ LET i == Len(sim_agents)
           d == action_decision(sim_agents[i])
           appended == Append(decisions, d = "True")
       IN  IF d = "ZeroDivisionError"
           THEN /\ sim_pc' = "raised"
                /\ sim_raised' = d
                /\ demo_pc' = unwound
                /\ UNCHANGED <<sim_agents, decisions>>
           ELSE /\ decisions' = appended
                /\ sim_agents' =
                       [j \in 1 .. i |->
                           LET agent == IF j = i
                                        THEN action_store(sim_agents[j], d)
                                        ELSE sim_agents[j]
                           IN  IF sim_aliased[j]
                               THEN [agent EXCEPT !.observations = appended]
                               ELSE agent]
                /\ sim_pc' = IF Len(appended) = num_agents
                             THEN "done" ELSE "create"
                /\ UNCHANGED <<sim_raised, demo_pc>>
    /\ UNCHANGED <<num_agents, q_value, sim_mode, private_signals, k_levels,
                   sim_aliased, agent_vars, legacy_vars>>

NextCascade ==
    \/ CascadeSimulator_init
    \/ simulate_k_level_cascade
    \/ simulate_mixed_k_levels
    \/ cascade_create
    \/ cascade_observe
    \/ cascade_action

SpecCascade == Init /\ [][NextCascade]_vars

(* ----------------------- run_comprehensive_demo ----------------------- *)

\* the list literal that run_comprehensive_demo slices
MixedKLevels == <<0, 1, 2, 1, 2, 0, 1, 2, 1, 0>>

\* q_value of main's config
MainQValue == <<3, 5>>

\* simulator = CascadeSimulator(**config) in main, for each num_agents
DemoSimulator_init == CascadeSimulator_new(0 .. DemoMaxAgents, {MainQValue})

\* the private-signal sequences tried in a demo: every sequence up to
\* HerdAgents agents, three sequences for more agents
demo_private_signals ==
    IF num_agents <= HerdAgents THEN generate_private_signals
    ELSE {[i \in 1 .. num_agents |-> TRUE],
          [i \in 1 .. num_agents |-> FALSE],
          [i \in 1 .. num_agents |-> i % 2 = 1]}

\* simulator.run_comprehensive_demo(), up to the loop of scenario 1:
\* results_k1 = self.simulate_k_level_cascade(k_level=1)
run_comprehensive_demo ==
    /\ sim_pc \in {"idle", "done", "raised"}
    /\ DemoStopped
    /\ demo_pc' = "k1"
    /\ \E signals \in demo_private_signals :
        start_run("k_level", signals, [i \in 1 .. num_agents |-> 1])

\* scenario 2: results_k2 = self.simulate_k_level_cascade(k_level=2)
demo_scenario_k2 ==
    /\ demo_pc = "k1"
    /\ sim_pc = "done"
    /\ demo_pc' = "k2"
    /\ \E signals \in demo_private_signals :
        start_run("k_level", signals, [i \in 1 .. num_agents |-> 2])

\* the slice [0, 1, 2, 1, 2, 0, 1, 2, 1, 0][:self.num_agents]
mixed_k_levels ==
    SubSeq(MixedKLevels, 1,
           IF num_agents < Len(MixedKLevels) THEN num_agents
           ELSE Len(MixedKLevels))

\* scenario 3: results_mixed = self.simulate_mixed_k_levels(mixed_k_levels)
demo_scenario_mixed ==
    /\ demo_pc = "k2"
    /\ sim_pc = "done"
    /\ demo_pc' = IF Len(mixed_k_levels) # num_agents THEN "raised" ELSE "mixed"
    /\ mixed_k_levels_call(mixed_k_levels, demo_private_signals)

\* self._print_comparative_analysis(...) and return
demo_return ==
    /\ demo_pc = "mixed"
    /\ sim_pc = "done"
    /\ demo_pc' = "finished"
    /\ UNCHANGED <<num_agents, q_value, sim_pc, sim_raised, sim_mode,
                   private_signals, k_levels, sim_agents, sim_aliased,
                   decisions, agent_vars, legacy_vars>>

NextDemo ==
    \/ DemoSimulator_init
    \/ run_comprehensive_demo
    \/ demo_scenario_k2
    \/ demo_scenario_mixed
    \/ demo_return
    \/ cascade_create
    \/ cascade_observe
    \/ cascade_action

SpecDemo == Init /\ [][NextDemo]_vars

(* ------------------------- helpers of the claims ---------------------- *)

RECURSIVE Pow(_, _)
Pow(b, e) == IF e = 0 THEN 1 ELSE b * Pow(b, e - 1)

\* how many entries of the sequence equal b
Count(seq, b) == Cardinality({i \in 1 .. Len(seq) : seq[i] = b})

Decided(a) == pc[a] = "decided"

InUnit(q) == RGe(q, Zero) /\ RGe(One, q)
InsideUnit(q) == RGt(q, Zero) /\ RGt(One, q)

\* (3/2)^(nT - nF) * L > 1 by cross-multiplication, where L = q / (1 - q)
\* for signal TRUE and (1 - q) / q for signal FALSE, for 0 < q < 1
OddsAboveOne(nT, nF, q, signal) ==
    LET own == IF signal THEN q[1] ELSE q[2] - q[1]
        other == IF signal THEN q[2] - q[1] ELSE q[1]
    IN  Pow(3, nT) * Pow(2, nF) * own > Pow(2, nT) * Pow(3, nF) * other

(* ------------------------------- claims ------------------------------- *)

\* C1: a k_level = 0 agent's action() is private_signal when q >= 0.5 and
\* (not private_signal) when q < 0.5, whatever its observations; q = 0.8 with
\* signal True gives True and q = 0.3 with signal True gives False.
C1_Level0FollowsSignal ==
    \A a \in AgentIds :
        (Decided(a) /\ agents[a].k_level = 0) =>
            LET q == agents[a].signal_strength
                s == agents[a].private_signal
            IN  /\ RGe(q, Half) => agents[a].decision = Py(s)
                /\ ~RGe(q, Half) => agents[a].decision = Py(~s)
                /\ (q = <<4, 5>> /\ s) => agents[a].decision = "True"
                /\ (q = <<3, 10>> /\ s) => agents[a].decision = "False"

C1_Witness ==
    /\ Decided(1)
    /\ agents[1].k_level = 0
    /\ agents[1].signal_strength = <<3, 10>>
    /\ agents[1].private_signal
    /\ agents[1].observations = <<TRUE, TRUE, TRUE>>
    /\ agents[1].decision = "False"

\* C2: with no observations and the default prior, agents of k_level 0, 1
\* and 2 all return the k = 0 rule output (private_signal if q >= 0.5, else
\* its negation), for every private_signal and q, q = 0.5 included.
C2_EmptyObservationsAgree ==
    \A a \in AgentIds :
        (Decided(a) /\ agents[a].observations = <<>>
                    /\ agents[a].prior = DefaultPrior) =>
            agents[a].decision =
                Py(IF RGe(agents[a].signal_strength, Half)
                   THEN agents[a].private_signal
                   ELSE ~agents[a].private_signal)

\* C3: the constructor fails, producing no agent, exactly when
\* signal_strength is outside [0,1] or k_level is not 0, 1 or 2; every agent
\* that exists has k_level in {0,1,2} and q in [0,1], and no later call on it
\* raises the configuration error.
C3_InitRejectsExactlyInvalid ==
    \A a \in AgentIds :
        pc[a] # "unborn" =>
            LET q == init_args[a][1]
                k == init_args[a][2]
            IN  /\ (pc[a] = "init_failed") <=> ~(InUnit(q) /\ k \in 0 .. 2)
                /\ pc[a] = "init_failed" =>
                       (raised[a] = "ValueError" /\ agents[a] = NoAgent)
                /\ Alive(a) =>
                       /\ agents[a].k_level \in 0 .. 2
                       /\ InUnit(agents[a].signal_strength)
                       /\ raised[a] # "ValueError"

C3_Witness ==
    /\ pc[1] = "init_failed"
    /\ init_args[1] = <<Half, 3>>
    /\ raised[1] = "ValueError"

\* C4: action() of a constructed agent never raises and returns a bool, for
\* every k_level, q (0 and 1 included), prior and observation list; a zero
\* Bayes denominator is not a failure.
C4_ActionTotal ==
    \A a \in AgentIds :
        Alive(a) =>
            /\ pc[a] # "action_raised"
            /\ raised[a] = "none"
            /\ Decided(a) => agents[a].decision \in {"True", "False"}

\* prior P(True) = 1, own signal True with q = 0: the last update has
\* numerator 0 and denominator 0
C4_Witness ==
    /\ Decided(1)
    /\ agents[1].k_level = 2
    /\ agents[1].prior = <<One, Zero>>
    /\ agents[1].signal_strength = Zero
    /\ agents[1].private_signal
    /\ Len(agents[1].observations) = 2
    /\ agents[1].decision \in {"True", "False"}

\* C5: a k_level = 1 agent with the default prior, 0 < q < 1 and nT True and
\* nF False observations (at least one observation) decides True exactly
\* when (3/2)^(nT - nF) * L > 1, L = q/(1-q) for signal True and (1-q)/q for
\* signal False; a posterior of exactly 0.5 gives False.
C5_Level1ClosedForm ==
    \A a \in AgentIds :
        (Decided(a) /\ agents[a].k_level = 1
                    /\ agents[a].prior = DefaultPrior
                    /\ InsideUnit(agents[a].signal_strength)
                    /\ agents[a].observations # <<>>) =>
            (agents[a].decision = "True") <=>
                OddsAboveOne(Count(agents[a].observations, TRUE),
                             Count(agents[a].observations, FALSE),
                             agents[a].signal_strength,
                             agents[a].private_signal)

\* q = 0.6, signal True, one False observation: the posterior is exactly 0.5
C5_Witness ==
    /\ Decided(1)
    /\ agents[1].k_level = 1
    /\ agents[1].prior = DefaultPrior
    /\ agents[1].signal_strength = <<3, 5>>
    /\ agents[1].private_signal
    /\ agents[1].observations = <<TRUE, FALSE, FALSE>>
    /\ bayesian_update(agents[1], agents[1].observations, TRUE) = Half
    /\ agents[1].decision = "False"

\* the sequence of n copies of b
AllSame(b, n) == [i \in 1 .. n |-> b]

\* the agent of the k=1 monotonicity scenario holding n False observations
FalseHerdAgent(n) ==
    [private_signal |-> TRUE, signal_strength |-> <<3, 5>>, k_level |-> 1,
     prior |-> DefaultPrior, observations |-> AllSame(FALSE, n),
     decision |-> "None"]

InMonotoneScenario(a) ==
    /\ Decided(a)
    /\ agents[a].k_level = 1
    /\ agents[a].private_signal
    /\ agents[a].signal_strength = <<3, 5>>
    /\ agents[a].prior = DefaultPrior
    /\ agents[a].observations # <<>>

\* C6: with k_level = 1, private_signal True and q = 0.6, every non-empty
\* all-True observation list gives True, and there is a length N from which
\* on every all-False observation list gives False.
C6_Level1Monotone ==
    /\ \A a \in AgentIds :
           (InMonotoneScenario(a)
              /\ agents[a].observations = AllSame(TRUE, Len(agents[a].observations)))
           => agents[a].decision = "True"
    /\ \E N \in 1 .. MaxObs :
           /\ \A n \in N .. MaxObs : aux_lvl1(FalseHerdAgent(n)) = "False"
           /\ \A a \in AgentIds :
                  (InMonotoneScenario(a)
                     /\ Len(agents[a].observations) >= N
                     /\ agents[a].observations
                            = AllSame(FALSE, Len(agents[a].observations)))
                  => agents[a].decision = "False"

C6_Witness ==
    /\ InMonotoneScenario(1)
    /\ agents[1].observations = <<FALSE, FALSE>>
    /\ agents[1].decision = "False"

\* the simulated k=1 decision for position i (1-based) of self.observations
\* under the hypothetical private signal s
DecisionIf(self, i, s) ==
    simulate_level1_agent(self, SubSeq(self.observations, 1, i - 1), s)

MatchesTrue(self, i) == Py(self.observations[i]) = DecisionIf(self, i, TRUE)
MatchesFalse(self, i) == Py(self.observations[i]) = DecisionIf(self, i, FALSE)

Positions(self) == 1 .. Len(self.observations)
TrueOnly(self) == {i \in Positions(self) : MatchesTrue(self, i) /\ ~MatchesFalse(self, i)}
FalseOnly(self) == {i \in Positions(self) : ~MatchesTrue(self, i) /\ MatchesFalse(self, i)}
Both(self) == {i \in Positions(self) : MatchesTrue(self, i) /\ MatchesFalse(self, i)}
Neither(self) == {i \in Positions(self) : ~MatchesTrue(self, i) /\ ~MatchesFalse(self, i)}

\* C7: _infer_private_signals classifies every position with the prefix
\* before it as context and increments exactly one counter: false_count for
\* a match with hypothetical signal False only, true_count for a match with
\* True only, with both and with neither; so the counters sum to
\* len(observations).
C7_InferCountsEveryObservation ==
    \A a \in AgentIds :
        (Decided(a) /\ agents[a].k_level = 2) =>
            LET self == agents[a]
                counts == infer_private_signals(self)
            IN  /\ counts[2] = Cardinality(FalseOnly(self))
                /\ counts[1] = Cardinality(TrueOnly(self))
                                 + Cardinality(Both(self))
                                 + Cardinality(Neither(self))
                /\ counts[1] + counts[2] = Len(self.observations)

C7_Witness ==
    /\ Decided(1)
    /\ agents[1].k_level = 2
    /\ Neither(agents[1]) # {}
    /\ FalseOnly(agents[1]) # {}
    /\ Both(agents[1]) # {}
    /\ infer_private_signals(agents[1]) = <<2, 1>>

\* C8: a k_level = 2 agent with observations decides by folding, from the
\* prior, true_count True and then false_count False updates of accuracy 0.6
\* and one update with its own signal and q, returning posterior > 0.5; with
\* the default prior and 0 < q < 1 that is True exactly when
\* (3/2)^(true_count - false_count) * L > 1, the counts being those of
\* _infer_private_signals.
C8_Level2ClosedForm ==
    \A a \in AgentIds :
        (Decided(a) /\ agents[a].k_level = 2 /\ agents[a].observations # <<>>) =>
            LET self == agents[a]
                counts == infer_private_signals(self)
                evidence == AllSame(TRUE, counts[1]) \o AllSame(FALSE, counts[2])
            IN  /\ self.decision =
                       GtHalf(bayesian_update(self, evidence, self.private_signal))
                /\ (self.prior = DefaultPrior /\ InsideUnit(self.signal_strength)) =>
                       ((self.decision = "True") <=>
                            OddsAboveOne(counts[1], counts[2],
                                         self.signal_strength,
                                         self.private_signal))

C8_Witness ==
    /\ Decided(1)
    /\ agents[1].k_level = 2
    /\ agents[1].prior = DefaultPrior
    /\ agents[1].signal_strength = <<4, 5>>
    /\ ~agents[1].private_signal
    /\ infer_private_signals(agents[1]) = <<2, 1>>
    /\ agents[1].decision = "False"

\* C9 as stated: under exact arithmetic, for every q and every observation
\* list, the decision at every position equals the simulated k=1 decision
\* for at least one of the hypothetical signals True and False.
C9_SomeHypothesisMatches ==
    \A a \in AgentIds :
        (Decided(a) /\ agents[a].k_level = 2) => Neither(agents[a]) = {}

\* C9 amended: with the default prior and 0 < q < 1, under exact arithmetic
\* position i matches neither hypothetical signal exactly when the
\* observation is True while (3/2)^(nT - nF) * L <= 1 for both L = q/(1-q)
\* and L = (1-q)/q, or False while it is > 1 for both (nT, nF counted in
\* observations[0:i]); in every other case it matches at least one.
C9_NeitherExactlyWhenHypothesesAgree ==
    \A a \in AgentIds :
        (Decided(a) /\ agents[a].k_level = 2
                    /\ agents[a].prior = DefaultPrior
                    /\ InsideUnit(agents[a].signal_strength)) =>
            LET self == agents[a]
            IN  \A i \in Positions(self) :
                    LET context == SubSeq(self.observations, 1, i - 1)
                        nT == Count(context, TRUE)
                        nF == Count(context, FALSE)
                        ifTrue == OddsAboveOne(nT, nF, self.signal_strength, TRUE)
                        ifFalse == OddsAboveOne(nT, nF, self.signal_strength, FALSE)
                    IN  (i \in Neither(self)) <=>
                            \/ (self.observations[i] /\ ~ifTrue /\ ~ifFalse)
                            \/ (~self.observations[i] /\ ifTrue /\ ifFalse)

\* q = 0.6 after [True, True]: both hypothetical decisions are True, the
\* observed decision is False
C9_Witness ==
    /\ Decided(1)
    /\ agents[1].k_level = 2
    /\ agents[1].prior = DefaultPrior
    /\ agents[1].signal_strength = <<3, 5>>
    /\ agents[1].observations = <<TRUE, TRUE, FALSE>>
    /\ Neither(agents[1]) = {3}

SameInputs(a, b) ==
    /\ agents[a].private_signal = agents[b].private_signal
    /\ agents[a].signal_strength = agents[b].signal_strength
    /\ agents[a].k_level = agents[b].k_level
    /\ agents[a].observations = agents[b].observations
    /\ agents[a].prior = agents[b].prior

\* C10: action() is deterministic: two agents with the same private_signal,
\* q, k_level, observations and prior that have both just decided hold the
\* same decision, and a further action() on an agent that has just decided
\* returns the same decision again.
C10_ActionDeterministic ==
    /\ [](\A a, b \in AgentIds :
              (Decided(a) /\ Decided(b) /\ SameInputs(a, b)) =>
                  agents[a].decision = agents[b].decision)
    /\ [][\A a \in AgentIds :
              (Decided(a) /\ pc'[a] = "decided") =>
                  agents'[a].decision = agents[a].decision]_vars

C10_Witness ==
    /\ Decided(1) /\ Decided(2)
    /\ SameInputs(1, 2)
    /\ agents[1].k_level = 2
    /\ agents[1].observations = <<FALSE, TRUE>>
    /\ agents[1].decision = "True"

\* C11: observe is idempotent: observe(x) called a second time with the same
\* x leaves every field of the agent as the first call left it, so the
\* action() that follows returns the same decision.
C11_ObserveIdempotent ==
    [][\A a \in AgentIds :
           pc'[a] = "observed_twice" =>
               /\ agents'[a] = agents[a]
               /\ aliased'[a] = aliased[a]
               /\ action_decision(agents'[a]) = action_decision(agents[a])]_vars

C11_Witness ==
    /\ pc[1] = "observed_twice"
    /\ agents[1].observations = <<TRUE, FALSE>>
    /\ agents[1].decision # "None"

\* C12: observe(y) replaces the observations wholesale: whatever calls came
\* before, the agent's observations equal the argument of the last observe
\* call (the empty list included), and they are the agent's own copy: what
\* the caller appends to its list afterwards does not reach them.
C12_ObserveReplacesAndCopies ==
    \A a \in AgentIds :
        Alive(a) =>
            /\ agents[a].observations = observe_arg[a]
            /\ ~aliased[a]

C12_Witness ==
    /\ Decided(1)
    /\ observe_arg[1] = <<FALSE>>
    /\ caller_list[1] = <<FALSE, TRUE, TRUE>>
    /\ agents[1].observations = <<FALSE>>

\* C13: action() changes no field of the agent but the cached decision:
\* private_signal, signal_strength, k_level, prior and observations are the
\* same before and after the call, for every k_level.
C13_ActionWritesOnlyDecision ==
    [][\A a \in AgentIds :
           (Alive(a) /\ pc'[a] \in {"decided", "action_raised"}) =>
               /\ agents'[a].private_signal = agents[a].private_signal
               /\ agents'[a].signal_strength = agents[a].signal_strength
               /\ agents'[a].k_level = agents[a].k_level
               /\ agents'[a].prior = agents[a].prior
               /\ agents'[a].observations = agents[a].observations]_vars

C13_Witness ==
    /\ Decided(1)
    /\ agents[1].k_level = 2
    /\ agents[1].observations = <<FALSE, TRUE, FALSE>>
    /\ agents[1].decision = "False"

SimRunning == sim_pc \in {"create", "observe", "action"}

\* C14: in a cascade run (uniform or mixed k-levels) the agents decide in
\* index order; when agent i decides its observations are exactly the
\* decisions of agents 0..i-1 in order; recorded decisions never change; and
\* when the run ends decisions has length num_agents with
\* agents[i].decision = decisions[i] and agents[i].observations =
\* decisions[0:i] for every i.
C14_CascadeOrder ==
    /\ [](sim_pc = "action" =>
              /\ Len(sim_agents) = Len(decisions) + 1
              /\ sim_agents[Len(sim_agents)].observations = decisions
              /\ sim_agents[Len(sim_agents)].decision = "None"
              /\ \A j \in 1 .. Len(decisions) :
                     sim_agents[j].decision = Py(decisions[j]))
    /\ [](sim_pc = "done" =>
              /\ Len(decisions) = num_agents
              /\ Len(sim_agents) = num_agents
              /\ \A i \in 1 .. num_agents :
                     /\ sim_agents[i].decision = Py(decisions[i])
                     /\ sim_agents[i].observations = SubSeq(decisions, 1, i - 1))
    /\ [][SimRunning =>
              \/ decisions' = decisions
              \/ /\ sim_pc = "action"
                 /\ Len(decisions') = Len(decisions) + 1
                 /\ SubSeq(decisions', 1, Len(decisions)) = decisions]_vars

C14_Witness ==
    /\ sim_pc = "done"
    /\ sim_mode = "mixed"
    /\ num_agents = 3
    /\ k_levels = <<0, 1, 2>>
    /\ decisions = <<FALSE, TRUE, FALSE>>
    /\ sim_agents[3].observations = <<FALSE, TRUE>>

\* C15: the end-to-end scenario private_signal True, q = 0.6, k_level 1,
\* observations [True, False, True, True, False] gives the posterior 9/13
\* (exact arithmetic) and the decision True, every time.
C15_EndToEndScenario ==
    \A a \in AgentIds :
        (Decided(a) /\ agents[a].k_level = 1
                    /\ agents[a].private_signal
                    /\ agents[a].signal_strength = <<3, 5>>
                    /\ agents[a].prior = DefaultPrior
                    /\ agents[a].observations = EndToEndObservations) =>
            /\ bayesian_update(agents[a], agents[a].observations,
                               agents[a].private_signal) = <<9, 13>>
            /\ agents[a].decision = "True"

C15_Witness ==
    /\ Decided(1)
    /\ agents[1].k_level = 1
    /\ agents[1].private_signal
    /\ agents[1].signal_strength = <<3, 5>>
    /\ agents[1].prior = DefaultPrior
    /\ agents[1].observations = EndToEndObservations
    /\ agents[1].decision = "True"

\* the beliefs _bayesian_update passes to _update_belief for this agent:
\* the prior and the belief after each prefix of the observations
BeliefsAlong(self) ==
    {fold_observations(self, self.prior[1], SubSeq(self.observations, 1, n)) :
        n \in 0 .. Len(self.observations)}

\* the beliefs _bayesian_update_with_inferred_signals passes to
\* _update_belief: after t True and then f False updates
InferredBeliefsAlong(self) ==
    LET counts == infer_private_signals(self)
    IN  {repeat_update(self, repeat_update(self, self.prior[1], TRUE, t), FALSE, f) :
            t \in 0 .. counts[1], f \in 0 .. counts[2]}

\* beliefs tried besides those of the agent's own run
ProbArgs == QValid \cup {<<9, 13>>}

\* C16: one Bayesian step with denominator
\* likelihood_true*p + likelihood_false*(1-p) equal to zero returns p
\* unchanged and does not fail; otherwise it returns likelihood_true*p
\* divided by the denominator.
C16_ZeroDenominatorKeepsBelief ==
    \A a \in AgentIds :
        Decided(a) =>
            \A p \in BeliefsAlong(agents[a]) \cup ProbArgs,
               signal \in BOOLEAN, is_observation \in BOOLEAN :
                LET q == IF is_observation THEN ObsAccuracy
                         ELSE agents[a].signal_strength
                    likelihood_true == IF signal THEN q ELSE RSub(One, q)
                    likelihood_false == IF signal THEN RSub(One, q) ELSE q
                    numerator == RMul(likelihood_true, p)
                    denominator ==
                        RAdd(numerator, RMul(likelihood_false, RSub(One, p)))
                    result == update_belief(agents[a], p, signal, is_observation)
                IN  /\ ~IsRaised(result)
                    /\ IF denominator = Zero
                       THEN result = p
                       ELSE RMul(result, denominator) = numerator

\* prior P(True) = 1, own signal True with q = 0: the last step of the run
\* has a zero denominator
C16_Witness ==
    /\ Decided(1)
    /\ agents[1].k_level = 1
    /\ agents[1].prior = <<One, Zero>>
    /\ agents[1].signal_strength = Zero
    /\ agents[1].private_signal
    /\ agents[1].observations = <<TRUE, FALSE>>
    /\ One \in BeliefsAlong(agents[1])
    /\ update_belief(agents[1], One, TRUE, FALSE) = One

\* C17: for p in [0,1], either signal and q in [0,1] the result of
\* _update_belief is in [0,1]; so the belief is in [0,1] after every step of
\* _bayesian_update and of _bayesian_update_with_inferred_signals.
C17_BeliefInUnitInterval ==
    \A a \in AgentIds :
        (Decided(a) /\ InUnit(agents[a].prior[1])) =>
            /\ \A p \in ProbArgs, signal \in BOOLEAN, is_observation \in BOOLEAN :
                   InUnit(update_belief(agents[a], p, signal, is_observation))
            /\ \A p \in BeliefsAlong(agents[a]) \cup InferredBeliefsAlong(agents[a]) :
                   /\ ~IsRaised(p)
                   /\ InUnit(p)
                   /\ \A signal \in BOOLEAN :
                          InUnit(update_belief(agents[a], p, signal, FALSE))

C17_Witness ==
    /\ Decided(1)
    /\ agents[1].k_level = 2
    /\ agents[1].signal_strength = One
    /\ agents[1].prior = DefaultPrior
    /\ agents[1].observations = <<TRUE, TRUE, TRUE>>
    /\ <<27, 35>> \in BeliefsAlong(agents[1])

\* the sequence seq rearranged by the permutation f of its positions
Permuted(seq, f) == [i \in 1 .. Len(seq) |-> seq[f[i]]]

\* C18: the k=1 belief does not depend on the order of the observations (in
\* exact arithmetic): two observation lists that are permutations of each
\* other give the same _bayesian_update posterior and the same k=1 action(),
\* for every private_signal, q and prior.
C18_Level1OrderIndependent ==
    \A a \in AgentIds :
        (Decided(a) /\ agents[a].k_level = 1) =>
            \A f \in Permutations(1 .. Len(agents[a].observations)) :
                LET self == agents[a]
                    other == [self EXCEPT
                                 !.observations = Permuted(self.observations, f)]
                IN  /\ bayesian_update(other, other.observations, other.private_signal)
                         = bayesian_update(self, self.observations, self.private_signal)
                    /\ aux_lvl1(other) = self.decision

C18_Witness ==
    /\ Decided(1)
    /\ agents[1].k_level = 1
    /\ agents[1].signal_strength = <<4, 5>>
    /\ agents[1].observations = <<TRUE, FALSE, FALSE>>
    /\ agents[1].decision = "True"

\* C19: Agent.action of the legacy AgentClass returns a bool (True or
\* False) for every k_level in {0,1,2}, private signal and observation
\* list, k_level = 2 with true_count = false_count included.
C19_LegacyActionReturnsBool ==
    (legacy_pc = "returned" /\ legacy.k_level \in {0, 1, 2}) =>
        legacy_ret \in {"True", "False"}

\* C20: for AgentV2 with the default prior and q in [0.5, 1], in exact
\* arithmetic, whenever the k_level = 1 decision for a private signal and an
\* observation list is True, the k_level = 2 decision for the same private
\* signal, q and observations is True as well: every True observation is
\* inferred as a True signal, so true_count - false_count is at least the
\* number of True minus the number of False observations.
C20_Level1TrueImpliesLevel2True ==
    \A a \in AgentIds :
        (/\ Decided(a)
         /\ agents[a].k_level \in {1, 2}
         /\ agents[a].prior = DefaultPrior
         /\ RGe(agents[a].signal_strength, Half)) =>
            LET self == agents[a]
                counts == infer_private_signals(self)
                level1 == IF self.k_level = 1 THEN self.decision ELSE aux_lvl1(self)
                level2 == IF self.k_level = 2 THEN self.decision ELSE aux_lvl2(self)
            IN  /\ (level1 = "True") => (level2 = "True")
                /\ counts[1] >= Count(self.observations, TRUE)
                /\ counts[1] - counts[2] >=
                       Count(self.observations, TRUE) - Count(self.observations, FALSE)

\* a k_level = 2 agent decides True where k_level = 1 does, on a list whose
\* False observation is inferred as a True signal
C20_Witness ==
    /\ Decided(1)
    /\ agents[1].k_level = 2
    /\ agents[1].prior = DefaultPrior
    /\ agents[1].signal_strength = Half
    /\ agents[1].observations = <<FALSE, TRUE, TRUE>>
    /\ infer_private_signals(agents[1]) = <<3, 0>>
    /\ aux_lvl1(agents[1]) = "True"
    /\ agents[1].decision = "True"

\* True entries minus False entries of a decision list
Lead(seq) == Count(seq, TRUE) - Count(seq, FALSE)

\* the decisions recorded before agent j acts
Before(j) == SubSeq(decisions, 1, j - 1)

\* a simulate_k_level_cascade(k_level=1) call at q_value = 0.6 is running or
\* has returned
InLevel1Cascade ==
    /\ sim_mode = "k_level"
    /\ q_value = MainQValue
    /\ sim_pc \in {"create", "observe", "action", "done"}
    /\ k_levels = [i \in 1 .. num_agents |-> 1]

\* C21: in simulate_k_level_cascade(k_level=1) with q_value = 0.6, exact
\* arithmetic, a False herd is absorbing: once the recorded decisions hold
\* strictly more False than True entries, every later agent decides False
\* whatever its private signal, for every private-signal sequence.
C21_FalseHerdAbsorbing ==
    /\ [](InLevel1Cascade =>
            \A j \in 1 .. Len(decisions) :
                (\E i \in 1 .. j : Lead(Before(i)) < 0) => ~decisions[j])
    /\ [][(InLevel1Cascade /\ Lead(decisions) < 0
              /\ Len(decisions') > Len(decisions)) =>
            (decisions' = Append(decisions, FALSE) /\ Lead(decisions') < 0)]_vars

\* the herd starts at the third agent; the fourth and fifth hold the signal
\* True and decide False
C21_Witness ==
    /\ InLevel1Cascade
    /\ private_signals = <<TRUE, FALSE, FALSE, TRUE, TRUE>>
    /\ decisions = <<TRUE, FALSE, FALSE, FALSE, FALSE>>

\* C22: in simulate_k_level_cascade(k_level=1) with q_value = 0.6, exact
\* arithmetic, a True herd is absorbing once the lead is two: once the
\* recorded decisions hold at least two more True than False entries, every
\* later agent decides True whatever its private signal; at a lead of exactly
\* one an agent with private signal False still decides False.
C22_TrueHerdAbsorbingAtLeadTwo ==
    /\ [](InLevel1Cascade =>
            \A j \in 1 .. Len(decisions) :
                /\ (\E i \in 1 .. j : Lead(Before(i)) >= 2) => decisions[j]
                /\ (Lead(Before(j)) = 1 /\ ~private_signals[j]) => ~decisions[j])
    /\ [][(InLevel1Cascade /\ Lead(decisions) >= 2
              /\ Len(decisions') > Len(decisions)) =>
            (decisions' = Append(decisions, TRUE) /\ Lead(decisions') >= 2)]_vars

\* the second agent, at lead one with signal False, decides False; the fifth,
\* at lead two with signal False, decides True
C22_Witness ==
    /\ InLevel1Cascade
    /\ private_signals = <<TRUE, FALSE, TRUE, TRUE, FALSE>>
    /\ decisions = <<TRUE, FALSE, TRUE, TRUE, TRUE>>

\* C23: for every num_agents >= 0, run_comprehensive_demo hands
\* simulate_mixed_k_levels a k_levels list as long as num_agents, so the
\* length check never raises ValueError and no scenario of the demo ends in
\* an exception; a simulate_mixed_k_levels call whose lengths differ raises
\* before it generates a signal or constructs an agent.
C23_DemoListMatchesNumAgents ==
    /\ (demo_pc = "k2" /\ sim_pc = "done") => Len(mixed_k_levels) = num_agents
    /\ demo_pc \in {"mixed", "finished"} => Len(k_levels) = num_agents
    /\ demo_pc # "raised"
    /\ (sim_mode = "mixed" /\ sim_raised = "ValueError") =>
           (private_signals = <<>> /\ sim_agents = <<>>)

====
